---- MODULE Spec2Model ----
(***************************************************************************)
(* adenDB: the B-tree node page codec (data_structures/b_node.py) and the  *)
(* BTree constructor (data_structures/b_tree.py).                          *)
(*                                                                         *)
(* A page buffer (Python bytearray) is held exactly, as its length and the *)
(* map of its non-zero bytes.  Python values that raise are results with a *)
(* non-empty err field naming the exception class.  TLC integers are 32    *)
(* bits wide, so a uint64 read by struct '<Q' is held as its 8 base-256    *)
(* digits, least significant first.                                        *)
(***************************************************************************)
EXTENDS Integers, Sequences, FiniteSets, TLC

VARIABLES
  src,          \* a node image handed over by the loader (old_node / self of append_range)
  dst,          \* the node under construction (new_node)
  before,       \* dst as it was before the last call that wrote to it
  last,         \* the last BNode call: its arguments and what it returned or raised
  writes,       \* number of writing calls made on dst
  root_offset,  \* BTree.root_offset of the object under construction
  pc,           \* the statement of BTree.__init__ about to run
  log,          \* the collaborator calls of the running constructor, in order
  invalidated,  \* page ids passed to invalidate_node so far
  allocated,    \* number of nodes create_node has returned
  built,        \* root_offset of every BTree object whose constructor returned
  started       \* number of constructor calls begun

vars == <<src, dst, before, last, writes, root_offset, pc, log, invalidated, allocated, built, started>>
nodeVars == <<src, dst, before, last, writes>>
treeVars == <<root_offset, pc, log, invalidated, allocated, built, started>>

\* ------------------------------------------------------------------ bounds
MaxKeyLen == 2
MaxEntries == 3
MaxCount == 2
MaxWrites == 2
MaxSteps == 3
MaxPageId == 2
MaxTrees == 2

\* ------------------------------------------------------- program constants
INTERNAL == 1
LEAF == 2
HEADER_SIZE == 4
POINTER_SIZE == 8
PAGE_SIZE == 4096
MaxU16 == 65535

Min(a, b) == IF a < b THEN a ELSE b
Max(a, b) == IF a < b THEN b ELSE a

\* ----------------------------------------------------------- Python values
IntObj(v) == [type |-> "int", value |-> v]
NodeType_INTERNAL == [type |-> "NodeType", value |-> INTERNAL]
NodeType_LEAF == [type |-> "NodeType", value |-> LEAF]
\* a == b of an int and a member of a plain Enum: equal only as the same object
PyEq(a, b) == a = b

Ret(v) == [err |-> "", val |-> v]
Raise(e) == [err |-> e, val |-> 0]
Wrote(b) == [err |-> "", data |-> b]
Failed(e, b) == [err |-> e, data |-> b]

\* ------------------------------------------------------------- bytearray
\* the buffer of n bytes whose bytes are f where f is defined, zero elsewhere
MkBuf(n, f) ==
  LET nzs == {p \in DOMAIN f : p >= 0 /\ p < n /\ f[p] # 0}
  IN [len |-> n, nz |-> [p \in nzs |-> f[p]]]

\* bytearray(PAGE_SIZE)
BNode_init == MkBuf(PAGE_SIZE, [p \in {} |-> 0])

At(b, p) == IF p \in DOMAIN b.nz THEN b.nz[p] ELSE 0

\* b[i:j], Python's clamping of slice bounds
SliceLo(b, i) == IF i < 0 THEN Max(i + b.len, 0) ELSE Min(i, b.len)
Slice(b, i, j) ==
  LET lo == SliceLo(b, i)
      hi == SliceLo(b, j)
  IN IF hi <= lo THEN <<>> ELSE [k \in 1..(hi - lo) |-> At(b, lo + k - 1)]

\* b[i:j] = bs : the buffer becomes b[:i] + bs + b[j:], whatever its length
SliceAssign(b, i, j, bs) ==
  LET lo == SliceLo(b, i)
      hi == Max(SliceLo(b, j), lo)
      n == Len(bs)
      shift == n - (hi - lo)
      cand == {p \in DOMAIN b.nz : p < lo} \cup (lo..(lo + n - 1))
              \cup {p + shift : p \in {q \in DOMAIN b.nz : q >= hi}}
  IN MkBuf(b.len + shift,
           [p \in cand |-> IF p < lo THEN At(b, p)
                           ELSE IF p < lo + n THEN bs[p - lo + 1]
                           ELSE At(b, p - shift)])

\* struct: where a field of `size` bytes at `offset` lies, -1 when it raises
BufPos(b, offset, size) ==
  IF offset < 0
    THEN IF offset + size > 0 \/ offset + b.len < 0 THEN -1 ELSE offset + b.len
    ELSE IF b.len - offset < size THEN -1 ELSE offset

RECURSIVE le_bytes(_, _)
le_bytes(v, n) == IF n = 0 THEN <<>> ELSE <<v % 256>> \o le_bytes(v \div 256, n - 1)

WriteAt(b, p, bs) ==
  MkBuf(b.len, [q \in DOMAIN b.nz \cup (p..(p + Len(bs) - 1)) |->
                  IF q >= p /\ q < p + Len(bs) THEN bs[q - p + 1] ELSE At(b, q)])

unpack_H(b, offset) ==
  LET p == BufPos(b, offset, 2)
  IN IF p < 0 THEN Raise("struct.error") ELSE Ret(At(b, p) + 256 * At(b, p + 1))

unpack_Q(b, offset) ==
  LET p == BufPos(b, offset, 8)
  IN IF p < 0 THEN Raise("struct.error") ELSE Ret([k \in 1..8 |-> At(b, p + k - 1)])

pack_H(b, offset, v) ==
  LET p == BufPos(b, offset, 2)
  IN IF p < 0 \/ v < 0 \/ v > MaxU16 THEN Failed("struct.error", b)
     ELSE Wrote(WriteAt(b, p, le_bytes(v, 2)))

\* v: a non-negative Python int as base-256 digits; it fits '<Q' when the digits
\* past the eighth are zero
pack_Q(b, offset, v) ==
  LET p == BufPos(b, offset, 8)
  IN IF p < 0 \/ (\E k \in 9..Len(v) : v[k] # 0) THEN Failed("struct.error", b)
     ELSE Wrote(WriteAt(b, p, [k \in 1..8 |-> IF k <= Len(v) THEN v[k] ELSE 0]))

\* bytes ordering: lexicographic on unsigned bytes, a proper prefix is smaller
BytesLT(a, b) ==
  \E k \in 1..(Min(Len(a), Len(b)) + 1) :
     /\ \A j \in 1..(k - 1) : a[j] = b[j]
     /\ IF k <= Len(a) /\ k <= Len(b) THEN a[k] < b[k] ELSE Len(a) < k /\ k <= Len(b)

BytesGT(a, b) == BytesLT(b, a)

\* ------------------------------------------------------------------ BNode
get_node_type(d) == unpack_H(d, 0)

get_num_keys(d) == unpack_H(d, 2)

is_leaf(d) ==
  LET t == get_node_type(d)
  IN IF t.err # "" THEN t ELSE Ret(PyEq(IntObj(t.val), NodeType_LEAF))

is_internal(d) ==
  LET t == get_node_type(d)
  IN IF t.err # "" THEN t ELSE Ret(PyEq(IntObj(t.val), NodeType_INTERNAL))

write_metadata(d, node_type, num_keys) ==
  LET a == pack_H(d, 0, node_type)
  IN IF a.err # "" THEN a ELSE pack_H(a.data, 2, num_keys)

get_pointer(d, idx) ==
  LET n == get_num_keys(d)
  IN IF n.err # "" THEN n
     ELSE IF ~(idx < n.val) THEN Raise("AssertionError")
     ELSE unpack_Q(d, HEADER_SIZE + POINTER_SIZE * idx)

set_pointer(d, idx, val) ==
  LET n == get_num_keys(d)
  IN IF n.err # "" THEN Failed(n.err, d)
     ELSE IF ~(idx < n.val) THEN Failed("AssertionError", d)
     ELSE pack_Q(d, HEADER_SIZE + POINTER_SIZE * idx, val)

\* the pointer array taken to be one byte per entry
get_offset_position_nostride(d, idx) ==
  LET n == get_num_keys(d)
  IN IF n.err # "" THEN n
     ELSE Ret(HEADER_SIZE + n.val + 2 * (idx - 1))

get_offset_position(d, idx) ==
  LET n == get_num_keys(d)
  IN IF n.err # "" THEN n
     ELSE Ret(HEADER_SIZE + n.val * POINTER_SIZE + 2 * (idx - 1))

get_offset(d, idx) ==
  IF ~(idx > 0) THEN Raise("AssertionError")
  ELSE LET pos == get_offset_position(d, idx)
       IN IF pos.err # "" THEN pos ELSE unpack_H(d, pos.val)

set_offset(d, idx, offset) ==
  LET pos == get_offset_position(d, idx)
  IN IF pos.err # "" THEN Failed(pos.err, d) ELSE pack_H(d, pos.val, offset)

get_kv_start(d, idx) ==
  LET n == get_num_keys(d)
  IN IF n.err # "" THEN n
     ELSE IF ~(idx <= n.val) THEN Raise("AssertionError")
     ELSE LET o == get_offset(d, idx)
          IN IF o.err # "" THEN o
             ELSE Ret(HEADER_SIZE + n.val * POINTER_SIZE + 2 * n.val + o.val)

get_key(d, idx) ==
  LET n == get_num_keys(d)
  IN IF n.err # "" THEN n
     ELSE IF ~(idx < n.val) THEN Raise("AssertionError")
     ELSE LET pos == get_kv_start(d, idx)
          IN IF pos.err # "" THEN pos
             ELSE LET kl == unpack_H(d, pos.val)
                  IN IF kl.err # "" THEN kl
                     ELSE Ret(Slice(d, pos.val + 4, pos.val + 4 + kl.val))

get_value(d, idx) ==
  LET n == get_num_keys(d)
  IN IF n.err # "" THEN n
     ELSE IF ~(idx < n.val) THEN Raise("AssertionError")
     ELSE LET pos == get_kv_start(d, idx)
          IN IF pos.err # "" THEN pos
             ELSE LET kl == unpack_H(d, pos.val)
                      vl == unpack_H(d, pos.val + 2)
                  IN IF kl.err # "" THEN kl
                     ELSE IF vl.err # "" THEN vl
                     ELSE IF vl.val = 0 THEN Ret(<<>>)
                     ELSE Ret(Slice(d, pos.val + 4 + kl.val, pos.val + 4 + kl.val + vl.val))

get_data_end(d) ==
  LET n == get_num_keys(d)
  IN IF n.err # "" THEN n ELSE get_kv_start(d, n.val)

\* the loop of node_lookup from index i on, pos the last index kept
RECURSIVE lookup_loop(_, _, _, _, _)
lookup_loop(d, key, i, pos, n_keys) ==
  IF i >= n_keys THEN Ret(pos)
  ELSE LET k == get_key(d, i)
       IN IF k.err # "" THEN k
          ELSE IF BytesGT(k.val, key) THEN Ret(pos)
          ELSE lookup_loop(d, key, i + 1, i, n_keys)

\* the loop stopping at a key equal to the search key as well
RECURSIVE lookup_loop_ge(_, _, _, _, _)
lookup_loop_ge(d, key, i, pos, n_keys) ==
  IF i >= n_keys THEN Ret(pos)
  ELSE LET k == get_key(d, i)
       IN IF k.err # "" THEN k
          ELSE IF ~BytesLT(k.val, key) THEN Ret(pos)
          ELSE lookup_loop_ge(d, key, i + 1, i, n_keys)

node_lookup_ge(d, key) ==
  LET n == get_num_keys(d)
  IN IF n.err # "" THEN n
     ELSE IF n.val = 0 THEN Ret(0)
     ELSE lookup_loop_ge(d, key, 1, 0, n.val)

node_lookup(d, key) ==
  LET n == get_num_keys(d)
  IN IF n.err # "" THEN n
     ELSE IF n.val = 0 THEN Ret(0)
     ELSE lookup_loop(d, key, 1, 0, n.val)

\* the copy loops of append_range; each returns the destination as far as written
RECURSIVE copy_pointers(_, _, _, _, _, _)
copy_pointers(s, d, start_new, start_old, i, num_pairs) ==
  IF i >= num_pairs THEN Wrote(d)
  ELSE LET p == get_pointer(s, start_old + i)
       IN IF p.err # "" THEN Failed(p.err, d)
          ELSE LET w == set_pointer(d, start_new + i, p.val)
               IN IF w.err # "" THEN w
                  ELSE copy_pointers(s, w.data, start_new, start_old, i + 1, num_pairs)

RECURSIVE copy_offsets(_, _, _, _, _, _, _, _)
copy_offsets(s, d, start_new, start_old, i, num_pairs, start_offset_new, start_offset_old) ==
  IF i > num_pairs THEN Wrote(d)
  ELSE LET o == get_offset(s, start_old + i)
       IN IF o.err # "" THEN Failed(o.err, d)
          ELSE LET w == set_offset(d, start_new + i, start_offset_new + o.val - start_offset_old)
               IN IF w.err # "" THEN w
                  ELSE copy_offsets(s, w.data, start_new, start_old, i + 1, num_pairs,
                                    start_offset_new, start_offset_old)

copy_kv(s, d, start_new, start_old, num_pairs) ==
  LET start_kv_old == get_kv_start(s, start_old)
      end_kv_old == get_kv_start(s, start_old + num_pairs)
      start_kv_new == get_kv_start(d, start_new)
  IN IF start_kv_old.err # "" THEN Failed(start_kv_old.err, d)
     ELSE IF end_kv_old.err # "" THEN Failed(end_kv_old.err, d)
     ELSE IF start_kv_new.err # "" THEN Failed(start_kv_new.err, d)
     ELSE Wrote(SliceAssign(d, start_kv_new.val,
                            start_kv_new.val + (end_kv_old.val - start_kv_old.val),
                            Slice(s, start_kv_old.val, end_kv_old.val)))

\* s is self (the source), d is new_node; s and d are distinct objects
append_range(s, d, start_new, start_old, num_pairs) ==
  LET ns == get_num_keys(s)
      nd == get_num_keys(d)
  IN IF ns.err # "" THEN Failed(ns.err, d)
     ELSE IF ~(start_old + num_pairs <= ns.val) THEN Failed("AssertionError", d)
     ELSE IF nd.err # "" THEN Failed(nd.err, d)
     ELSE IF ~(start_new + num_pairs <= nd.val) THEN Failed("AssertionError", d)
     ELSE IF num_pairs = 0 THEN Wrote(d)
     ELSE LET p == copy_pointers(s, d, start_new, start_old, 0, num_pairs)
          IN IF p.err # "" THEN p
             ELSE LET start_offset_new == get_offset(p.data, start_new)
                      start_offset_old == get_offset(s, start_old)
                  IN IF start_offset_new.err # "" THEN Failed(start_offset_new.err, p.data)
                     ELSE IF start_offset_old.err # "" THEN Failed(start_offset_old.err, p.data)
                     ELSE LET o == copy_offsets(s, p.data, start_new, start_old, 1, num_pairs,
                                                start_offset_new.val, start_offset_old.val)
                          IN IF o.err # "" THEN o
                             ELSE copy_kv(s, o.data, start_new, start_old, num_pairs)

\* def append_range(self, new_node, start_new, start_old, num_pairs): the
\* parameters after self
append_range_params == 4
\* new_node.append_range(new_node, old_node, 0, 0, idx): the arguments passed
leaf_insert_call_args == 5

\* binding the arguments of a method call: a wrong number of them raises
\* before the body runs
bind_args(passed, params) == IF passed # params THEN "TypeError" ELSE ""

\* returns the new node, or raises.  The first append_range call cannot bind
\* its arguments; past it comes new_node.append_kv, which BNode does not define.
leaf_insert(old_node, idx, key, val) ==
  LET n == get_num_keys(old_node)
      new_node == write_metadata(BNode_init, LEAF, n.val + 1)
      call == bind_args(leaf_insert_call_args, append_range_params)
  IN IF n.err # "" THEN n
     ELSE IF new_node.err # "" THEN Raise(new_node.err)
     ELSE IF call # "" THEN Raise(call)
     ELSE Raise("AttributeError")

\* --------------------------------------------------- node images for Init
\* append_kv is called by leaf_insert and defined nowhere in BNode; pages that
\* hold entries are laid out as the format describes it: pointer slot zero,
\* 2-byte key length, 2-byte value length, key, value, and the cumulative
\* offset of the next entry at offset slot idx + 1.
append_kv(d, idx, key, val) ==
  LET n == get_num_keys(d).val
      off == IF idx = 0 THEN 0 ELSE get_offset(d, idx).val
      kv == le_bytes(Len(key), 2) \o le_bytes(Len(val), 2) \o key \o val
      p == set_pointer(d, idx, le_bytes(0, 8)).data
      w == WriteAt(p, HEADER_SIZE + n * POINTER_SIZE + 2 * n + off, kv)
  IN set_offset(w, idx + 1, off + Len(kv)).data

KeyBytes == {0, 255}
SeqsUpTo(S, n) == UNION {[1..k -> S] : k \in 0..n}
Keys == SeqsUpTo(KeyBytes, MaxKeyLen)

\* the value stored with a key in the sample images (one of them empty)
ValOf(key) == IF Len(key) = 1 THEN <<>> ELSE <<Len(key) + 17>> \o key
\* the child pointer stored at an index of a sample internal node
PtrOf(idx) == le_bytes(258 + idx, 8)

RECURSIVE SortKeys(_)
SortKeys(S) ==
  IF S = {} THEN <<>>
  ELSE LET m == CHOOSE k \in S : \A o \in S \ {k} : BytesLT(k, o)
       IN <<m>> \o SortKeys(S \ {m})

RECURSIVE fill_kv(_, _, _)
fill_kv(d, keys, i) ==
  IF i >= Len(keys) THEN d
  ELSE fill_kv(append_kv(d, i, keys[i + 1], ValOf(keys[i + 1])), keys, i + 1)

RECURSIVE fill_pointers(_, _, _)
fill_pointers(d, n, i) ==
  IF i >= n THEN d ELSE fill_pointers(set_pointer(d, i, PtrOf(i)).data, n, i + 1)

\* the page of a node of `kind` whose keys are `keys`, in this order
Image(kind, keys) ==
  LET m == write_metadata(BNode_init, kind, Len(keys)).data
      kv == fill_kv(m, keys, 0)
  IN IF kind = INTERNAL THEN fill_pointers(kv, Len(keys), 0) ELSE kv

Kinds == {INTERNAL, LEAF}
KeySets == {S \in SUBSET Keys : Cardinality(S) <= MaxEntries}
SortedImages == {Image(kind, SortKeys(S)) : kind \in Kinds, S \in KeySets}

\* the sources of the range copies: the first n keys, for each kind
RECURSIVE Prefix(_, _)
Prefix(q, n) == IF n = 0 THEN <<>> ELSE Prefix(q, n - 1) \o <<q[n]>>
SourceImages == {Image(kind, Prefix(SortKeys(Keys), n)) : kind \in Kinds, n \in 0..MaxEntries}

\* ------------------------------------------------------------------ inputs
\* counts written by write_metadata: none, a few, and the largest a uint16 holds
Counts == {0, MaxCount, MaxU16}
Indexes == (-1)..(MaxCount + 1)
PtrVals == {le_bytes(1, 8), [k \in 1..8 |-> 255]}
OffVals == {258, MaxU16}
\* a base offset that leaves 2 bytes before the end of a page of MaxCount entries
NearEnd == PAGE_SIZE - HEADER_SIZE - MaxCount * (POINTER_SIZE + 2) - 2
BaseOffs == {9, NearEnd}

NoCall == [op |-> "none", args |-> <<>>, err |-> "", val |-> 0]
Call(op, args, r) == [op |-> op, args |-> args, err |-> r.err, val |-> r.val]
CallW(op, args, r) == [op |-> op, args |-> args, err |-> r.err, val |-> 0]

TreeIdle ==
  /\ root_offset = -1
  /\ pc = "idle"
  /\ log = <<>>
  /\ invalidated = {}
  /\ allocated = 0
  /\ built = <<>>
  /\ started = 0

\* a call that reads node d
Read(call) ==
  /\ last' = call
  /\ before' = dst
  /\ UNCHANGED <<src, dst, writes>>
  /\ UNCHANGED treeVars

\* a call that writes to dst, at most `limit` of them in a run
Write(limit, op, args, r) ==
  /\ writes < limit
  /\ dst' = r.data
  /\ before' = dst
  /\ last' = CallW(op, args, r)
  /\ writes' = writes + 1
  /\ UNCHANGED src
  /\ UNCHANGED treeVars

\* ------------------------------------ one call on a loaded node (src)
\* node_lookup, the getters and leaf_insert leave the node they are given as it
\* is: a run draws the node and the arguments and makes one call.
InitLookup ==
  /\ src \in SortedImages
  /\ dst = BNode_init
  /\ before = BNode_init
  /\ last = NoCall
  /\ writes = 0
  /\ TreeIdle

Apply(call) ==
  /\ last.op = "none"
  /\ last' = call
  /\ UNCHANGED <<src, dst, before, writes>>
  /\ UNCHANGED treeVars

NodeLookup(key) == Apply(Call("node_lookup", [key |-> key], node_lookup(src, key)))
GetKey(idx) == Apply(Call("get_key", [idx |-> idx], get_key(src, idx)))
GetValue(idx) == Apply(Call("get_value", [idx |-> idx], get_value(src, idx)))
GetKvStart(idx) == Apply(Call("get_kv_start", [idx |-> idx], get_kv_start(src, idx)))
GetDataEnd == Apply(Call("get_data_end", <<>>, get_data_end(src)))

\* result = src.leaf_insert(src, idx, key, val); dst holds the node returned
LeafInsert(idx, key, val) ==
  LET r == leaf_insert(src, idx, key, val)
  IN /\ last.op = "none"
     /\ last' = CallW("leaf_insert", [idx |-> idx, key |-> key, val |-> val], r)
     /\ dst' = IF r.err = "" THEN r.val ELSE dst
     /\ UNCHANGED <<src, before, writes>>
     /\ UNCHANGED treeVars

NextLookup ==
  \/ \E key \in Keys : NodeLookup(key)
  \/ \E idx \in 0..MaxEntries : GetKey(idx)
  \/ \E idx \in 0..MaxEntries : GetValue(idx)
  \/ \E idx \in 0..MaxEntries : GetKvStart(idx)
  \/ GetDataEnd
  \/ \E idx \in 0..MaxEntries, key \in Keys : LeafInsert(idx, key, ValOf(key))

SpecLookup == InitLookup /\ [][NextLookup]_vars

\* ------------------------------------------- header, pointers, offset table
WriteMetadata(limit, node_type, num_keys) ==
  Write(limit, "write_metadata", [node_type |-> node_type, num_keys |-> num_keys],
        write_metadata(dst, node_type, num_keys))

SetPointer(limit, idx, val) ==
  Write(limit, "set_pointer", [idx |-> idx, val |-> val], set_pointer(dst, idx, val))

SetOffset(limit, idx, offset) ==
  Write(limit, "set_offset", [idx |-> idx, offset |-> offset], set_offset(dst, idx, offset))

IsLeaf == Read(Call("is_leaf", <<>>, is_leaf(dst)))
IsInternal == Read(Call("is_internal", <<>>, is_internal(dst)))
GetNodeType == Read(Call("get_node_type", <<>>, get_node_type(dst)))
GetNumKeys == Read(Call("get_num_keys", <<>>, get_num_keys(dst)))
GetPointer(idx) == Read(Call("get_pointer", [idx |-> idx], get_pointer(dst, idx)))
GetOffset(idx) == Read(Call("get_offset", [idx |-> idx], get_offset(dst, idx)))

\* a fresh node, or a loaded internal node of MaxCount entries
CodecStarts == {BNode_init, Image(INTERNAL, Prefix(SortKeys(Keys), MaxCount))}

InitCodec ==
  /\ src = BNode_init
  /\ dst \in CodecStarts
  /\ before = dst
  /\ last = NoCall
  /\ writes = 0
  /\ TreeIdle

NextCodec ==
  \/ \E node_type \in Kinds, num_keys \in Counts : WriteMetadata(MaxWrites, node_type, num_keys)
  \/ \E idx \in Indexes, val \in PtrVals : SetPointer(MaxWrites, idx, val)
  \/ \E idx \in Indexes, offset \in OffVals : SetOffset(MaxWrites, idx, offset)
  \/ IsLeaf
  \/ IsInternal
  \/ GetNodeType
  \/ GetNumKeys
  \/ \E idx \in Indexes : GetPointer(idx)
  \/ \E idx \in Indexes : GetOffset(idx)

SpecCodec == InitCodec /\ [][NextCodec]_vars

\* ------------------------------------- building a node (dst) from one (src)
AppendRange(start_new, start_old, num_pairs) ==
  Write(MaxSteps, "append_range",
        [start_new |-> start_new, start_old |-> start_old, num_pairs |-> num_pairs],
        append_range(src, dst, start_new, start_old, num_pairs))

Init ==
  /\ src \in SourceImages
  /\ dst = BNode_init
  /\ before = BNode_init
  /\ last = NoCall
  /\ writes = 0
  /\ TreeIdle

Next ==
  \/ \E node_type \in Kinds, num_keys \in 0..MaxCount : WriteMetadata(MaxSteps, node_type, num_keys)
  \/ \E idx \in 0..(MaxCount - 1) : SetPointer(MaxSteps, idx, le_bytes(1, 8))
  \/ \E idx \in 1..MaxCount, offset \in BaseOffs : SetOffset(MaxSteps, idx, offset)
  \/ \E start_new \in 0..MaxCount, start_old \in 0..MaxCount, num_pairs \in 0..MaxCount :
        AppendRange(start_new, start_old, num_pairs)

Spec == Init /\ [][Next]_vars

\* ---------------------------------------------------------- BTree.__init__
PageIds == 0..MaxPageId

\* a collaborator call that raises ends the constructor
init_next_swallow(stmt, ok) ==
  CASE stmt = "load" -> "create"
    [] stmt = "create" -> "invalidate"
    [] stmt = "invalidate" -> "done"

\* the statement after `stmt`: load_node, then create_node, then invalidate_node
init_next(stmt, ok) ==
  IF ~ok THEN "failed"
  ELSE CASE stmt = "load" -> "create"
         [] stmt = "create" -> "invalidate"
         [] stmt = "invalidate" -> "done"

Called(fn, ok) == Append(log, [fn |-> fn, arg |-> root_offset, ok |-> ok])

\* BTree(r, loader, allocator, invalidator): the four assignments
BTree_init(r) ==
  /\ pc \in {"idle", "done", "failed"}
  /\ started < MaxTrees
  /\ root_offset' = r
  /\ pc' = "load"
  /\ log' = <<>>
  /\ started' = started + 1
  /\ UNCHANGED <<invalidated, allocated, built>>
  /\ UNCHANGED nodeVars

\* root = self.load_node(root_offset); the loader returns or raises
LoadNode(ok) ==
  /\ pc = "load"
  /\ log' = Called("load_node", ok)
  /\ pc' = init_next("load", ok)
  /\ UNCHANGED <<root_offset, invalidated, allocated, built, started>>
  /\ UNCHANGED nodeVars

\* new_root = self.create_node(root_offset)
CreateNode(ok) ==
  /\ pc = "create"
  /\ log' = Called("create_node", ok)
  /\ allocated' = IF ok THEN allocated + 1 ELSE allocated
  /\ pc' = init_next("create", ok)
  /\ UNCHANGED <<root_offset, invalidated, built, started>>
  /\ UNCHANGED nodeVars

\* self.invalidate_node(root_offset); the constructor returns after it
InvalidateNode(ok) ==
  /\ pc = "invalidate"
  /\ log' = Called("invalidate_node", ok)
  /\ invalidated' = invalidated \cup {root_offset}
  /\ pc' = init_next("invalidate", ok)
  /\ built' = IF pc' = "done" THEN Append(built, root_offset) ELSE built
  /\ UNCHANGED <<root_offset, allocated, started>>
  /\ UNCHANGED nodeVars

InitTree ==
  /\ src = BNode_init
  /\ dst = BNode_init
  /\ before = BNode_init
  /\ last = NoCall
  /\ writes = 0
  /\ TreeIdle

NextTree ==
  \/ \E r \in PageIds : BTree_init(r)
  \/ \E ok \in BOOLEAN : LoadNode(ok)
  \/ \E ok \in BOOLEAN : CreateNode(ok)
  \/ \E ok \in BOOLEAN : InvalidateNode(ok)

SpecTree == InitTree /\ [][NextTree]_vars

\* ================================================================== claims
Count(d) == get_num_keys(d).val
Kind(d) == get_node_type(d).val

\* the key of entry i as the page layout stores it: the entry starts at the
\* KV region's start plus offset slot i, and entry 0 at the region's start
StoredKey(d, i) ==
  LET pos == HEADER_SIZE + Count(d) * (POINTER_SIZE + 2)
             + (IF i = 0 THEN 0 ELSE get_offset(d, i).val)
  IN Slice(d, pos + 4, pos + 4 + unpack_H(d, pos).val)

StrictlyIncreasing(d) ==
  \A i \in 0..(Count(d) - 2) : BytesLT(StoredKey(d, i), StoredKey(d, i + 1))

\* C1: leaf_insert(node, idx, k, v) on a leaf with sorted unique keys and
\* 0 <= idx <= node.count returns a node with one more entry in which
\* lookup(result, k) finds an index whose key is k and whose value is v.
C1_LeafInsertThenLookup ==
  (/\ last.op = "leaf_insert"
   /\ Kind(src) = LEAF
   /\ StrictlyIncreasing(src)
   /\ last.args.idx <= Count(src))
  => /\ last.err = ""
     /\ Count(dst) = Count(src) + 1
     /\ LET i == node_lookup(dst, last.args.key)
        IN /\ i.err = ""
           /\ get_key(dst, i.val) = Ret(last.args.key)
           /\ get_value(dst, i.val) = Ret(last.args.val)

\* C2: append_range with src_start, dst_start >= 0, num_pairs >= 1 and both
\* ranges inside the nodes' counts completes, and the destination's pointer,
\* key and value at dst_start + k are those of the source at src_start + k.
C2_AppendRangeCopies ==
  (/\ last.op = "append_range"
   /\ last.args.num_pairs >= 1
   /\ last.args.start_old + last.args.num_pairs <= Count(src)
   /\ last.args.start_new + last.args.num_pairs <= Count(before))
  => /\ last.err = ""
     /\ \A k \in 0..(last.args.num_pairs - 1) :
          LET i == last.args.start_new + k
              j == last.args.start_old + k
          IN /\ get_pointer(dst, i).err = ""
             /\ get_pointer(dst, i) = get_pointer(src, j)
             /\ get_key(dst, i).err = ""
             /\ get_key(dst, i) = get_key(src, j)
             /\ get_value(dst, i).err = ""
             /\ get_value(dst, i) = get_value(src, j)

C4_KvStartZero ==
  (last.op = "get_kv_start" /\ last.args.idx = 0)
  => /\ last.err = ""
     /\ last.val = HEADER_SIZE + POINTER_SIZE * Count(src) + 2 * Count(src)

\* what a write to one slot must leave alone: kind, count, the other pointers
\* and the other offsets.  The buffer keeps its length, so a slot that starts
\* past the page raises before and after alike; the slots compared are those
\* that start inside the page.
PointerSlots(n) == 0..(Min(n, PAGE_SIZE \div POINTER_SIZE) - 1)
OffsetSlots(n) ==
  1..Min(n, Max(0, (PAGE_SIZE - HEADER_SIZE - POINTER_SIZE * n) \div 2 + 1))
OthersUnchanged(ptr, off) ==
  /\ dst.len = before.len
  /\ get_node_type(dst) = get_node_type(before)
  /\ get_num_keys(dst) = get_num_keys(before)
  /\ \A i \in PointerSlots(Count(before)) :
       i # ptr => get_pointer(dst, i) = get_pointer(before, i)
  /\ \A j \in OffsetSlots(Count(before)) :
       j # off => get_offset(dst, j) = get_offset(before, j)

HeaderRoundTrip ==
  last.op = "write_metadata"
  => /\ last.err = ""
     /\ get_node_type(dst) = Ret(last.args.node_type)
     /\ get_num_keys(dst) = Ret(last.args.num_keys)

\* C5 as stated: the header round-trips, set_pointer(i, v) for 0 <= i < n and
\* set_offset(j, o) for 1 <= j <= n read back what was written, and each such
\* write leaves kind, count, other pointers and other offsets as they were.
C5_RoundTripAnyCount ==
  /\ HeaderRoundTrip
  /\ (last.op = "set_pointer" /\ 0 <= last.args.idx /\ last.args.idx < Count(before))
     => /\ last.err = ""
        /\ get_pointer(dst, last.args.idx) = Ret(last.args.val)
        /\ OthersUnchanged(last.args.idx, 0)
  /\ (last.op = "set_offset" /\ 1 <= last.args.idx /\ last.args.idx <= Count(before))
     => /\ last.err = ""
        /\ get_offset(dst, last.args.idx) = Ret(last.args.offset)
        /\ OthersUnchanged(-1, last.args.idx)

PointerSlotInPage(i) == HEADER_SIZE + POINTER_SIZE * (i + 1) <= PAGE_SIZE
OffsetSlotInPage(n, j) == HEADER_SIZE + POINTER_SIZE * n + 2 * j <= PAGE_SIZE

\* C5 amended: the same, for the pointer and offset slots that lie inside the
\* 4096-byte page (4 + 8*(i+1) <= 4096, 4 + 8*n + 2*j <= 4096).
C5_RoundTripInPage ==
  /\ HeaderRoundTrip
  /\ (/\ last.op = "set_pointer"
      /\ 0 <= last.args.idx /\ last.args.idx < Count(before)
      /\ PointerSlotInPage(last.args.idx))
     => /\ last.err = ""
        /\ get_pointer(dst, last.args.idx) = Ret(last.args.val)
        /\ OthersUnchanged(last.args.idx, 0)
  /\ (/\ last.op = "set_offset"
      /\ 1 <= last.args.idx /\ last.args.idx <= Count(before)
      /\ OffsetSlotInPage(Count(before), last.args.idx))
     => /\ last.err = ""
        /\ get_offset(dst, last.args.idx) = Ret(last.args.offset)
        /\ OthersUnchanged(-1, last.args.idx)

\* C5 witness: an offset written in range on a node that holds non-zero
\* pointers and another non-zero offset.
C5_Witness ==
  /\ last.op = "set_offset"
  /\ last.err = ""
  /\ Count(before) = MaxCount
  /\ last.args.idx = 1
  /\ get_pointer(before, 0).val # le_bytes(0, 8)
  /\ get_offset(before, MaxCount).val # 0
  /\ get_offset(dst, 1).val # get_offset(before, 1).val

\* C6: is_leaf() is True exactly when the kind field holds 2 and
\* is_internal() exactly when it holds 1.
C6_KindPredicates ==
  /\ last.op = "is_leaf" => (last.err = "" /\ last.val = (Kind(dst) = LEAF))
  /\ last.op = "is_internal" => (last.err = "" /\ last.val = (Kind(dst) = INTERNAL))

\* C7: the constructor calls load_node, create_node, invalidate_node in this
\* order, each on root_offset and each only after the one before it returned;
\* after a call that raised no further collaborator is called.
C7_CallOrder ==
  /\ Len(log) <= 3
  /\ \A i \in 1..Len(log) :
       /\ log[i].fn = <<"load_node", "create_node", "invalidate_node">>[i]
       /\ log[i].arg = root_offset
       /\ i > 1 => log[i - 1].ok
  /\ (\E i \in 1..Len(log) : ~log[i].ok) => pc = "failed"

\* C7 witness: a constructor that made all three calls and returned.
C7_Witness ==
  /\ pc = "done"
  /\ Len(log) = 3
  /\ log[3].fn = "invalidate_node"

\* C8: the root_offset of a constructed BTree has not been passed to
\* invalidate_node.
C8_RootNotInvalidated ==
  \A i \in 1..Len(built) : built[i] \notin invalidated

\* C9: set_offset and get_offset with an index outside 1..count raise, and
\* the failed set_offset leaves the buffer as it was.
C9_OffsetIndexChecked ==
  (/\ last.op \in {"set_offset", "get_offset"}
   /\ (last.args.idx < 1 \/ last.args.idx > Count(before)))
  => /\ last.err # ""
     /\ dst = before

\* C10: after any sequence of write_metadata, set_pointer, set_offset and
\* append_range calls the node's buffer is PAGE_SIZE bytes long.
C10_PageSizeKept ==
  dst.len = PAGE_SIZE

====
